---- MODULE Spec2Model ----
(***************************************************************************)
(* A model of bot.mjs: the WhatsApp relay that polls a storage bucket and  *)
(* an outbox table and forwards what it finds to a chat group.             *)
(*                                                                         *)
(* One action is one run of the event loop: a callback or the continuation *)
(* of an `await`, from the point where it is resumed to the next `await`   *)
(* (or to its end).  Everything the code does synchronously in between is  *)
(* part of the same action.                                                *)
(***************************************************************************)
EXTENDS Integers, Sequences, FiniteSets, Bags, TLC

(***************************************************************************)
(* Bounds of the model.                                                    *)
(***************************************************************************)
\* startWhatsApp() invocations (socket generations) per process run
MaxSocks == 2
\* cycles of one engine that are in flight at the same time
MaxCycles == 2
\* process restarts
MaxCrashes == 1
\* rows ever inserted in messages_outbox
MaxRows == 2
\* the ghost send counters saturate here ("SendCap or more")
SendCap == 2
\* connection.update handlers that may await QRCode.toDataURL at a time
MaxQr == 2
\* messages.upsert events in a run
MaxUpserts == 2

(***************************************************************************)
(* Program constants.                                                      *)
(***************************************************************************)
\* DisconnectReason.loggedOut
LoggedOut == 401
\* a close reason that is not a logout (DisconnectReason.connectionLost)
ConnectionLost == 408
\* .list('', { limit: 100, ... })
ListLimit == 100
\* messages_outbox ... .limit(50)
OutboxLimit == 50

(***************************************************************************)
(* File names are sequences of characters, so that the suffix test is      *)
(* computed and not assumed.                                               *)
(***************************************************************************)
FileA == <<"a", ".", "p", "d", "f">>
FileB == <<"b", ".", "P", "D", "F">>
FileN == <<"n", ".", "t", "x", "t">>
Files == {FileA, FileB, FileN}

\* The orders in which the environment uploads the files: between them the text
\* file takes every place of the listing and the two pdfs both relative orders.
UploadOrders ==
  {<<FileN, FileB, FileA>>, <<FileA, FileN, FileB>>, <<FileB, FileA, FileN>>}

PdfSuffix == <<".", "p", "d", "f">>

\* String.prototype.toLowerCase, on the characters the file names use
LowerChar(c) ==
  CASE c = "P" -> "p"
    [] c = "D" -> "d"
    [] c = "F" -> "f"
    [] c = "T" -> "t"
    [] c = "X" -> "x"
    [] OTHER -> c

toLowerCase(s) == [i \in 1..Len(s) |-> LowerChar(s[i])]

endsWith(s, suffix) ==
  /\ Len(s) >= Len(suffix)
  /\ \A i \in 1..Len(suffix) : s[Len(s) - Len(suffix) + i] = suffix[i]

\* file.name?.toLowerCase().endsWith('.pdf')
IsPdf(name) == endsWith(toLowerCase(name), PdfSuffix)

(***************************************************************************)
(* State.                                                                  *)
(***************************************************************************)
VARIABLES
  bucket,        \* the storage bucket: file names in upload order, oldest first
  rows,          \* the messages_outbox table: row id = index
  disk,          \* sent_cache.json: [readable, items]
  sentFiles,     \* the in-memory Set, as the sequence of its insertion order
  starting,      \* startWhatsApp() calls that have not yet reached makeWASocket
  socks,         \* the sockets made so far in this run, each its state
  bucketTimers,  \* sockets whose startWhatsApp set the pollBucketAndSend interval
  outboxTimers,  \* sockets whose startWhatsApp set the pollOutboxAndSend interval
  bcycles,       \* bag of pollBucketAndSend calls suspended at an await
  ocycles,       \* bag of pollOutboxAndSend calls suspended at an await
  crashes,       \* number of process restarts so far
  loaded,        \* ghost: the names loadSentCache returned when this run started
  okCount,       \* ghost: per file name, sends that returned success in this run
  everSent,      \* ghost: file names delivered to the group in any run
  lost,          \* ghost: the names delivered right before a restart, not recorded
  rowOk,         \* ghost: per row id, sends that returned success
  latestQRDataURL, \* the pairing challenge the QR page shows, "" for none
  qrTasks,       \* bag of connection.update handlers awaiting QRCode.toDataURL
  openedBrowser, \* sockets whose startWhatsApp has opened the browser
  inbox,         \* the messages_inbox table
  itasks,        \* bag of messages.upsert handlers suspended at an insert
  upserts,       \* number of messages.upsert events so far
  lastInsert,    \* ghost: how the latest insert in messages_inbox ended
  listFailed     \* ghost: a listing of this run has failed (noted in SpecListError)

connVars == <<starting, socks, bucketTimers, outboxTimers>>
bucketVars == <<bucket, disk, sentFiles, bcycles, loaded, okCount, everSent, lost>>
outboxVars == <<rows, ocycles, rowOk>>
pairVars == <<latestQRDataURL, qrTasks, openedBrowser>>
inboxVars == <<inbox, itasks, upserts, lastInsert>>
vars == <<connVars, bucketVars, outboxVars, crashes, pairVars, inboxVars, listFailed>>

(***************************************************************************)
(* Helpers.                                                                *)
(***************************************************************************)
Range(s) == {s[i] : i \in 1..Len(s)}

Min(a, b) == IF a < b THEN a ELSE b

Bump(c) == IF c < SendCap THEN c + 1 ELSE c

RECURSIVE Reverse(_)
Reverse(s) == IF s = <<>> THEN <<>> ELSE Append(Reverse(Tail(s)), Head(s))

\* one suspended call replaced by its next state, or ended
Swap(bag, old, new) == (bag (-) SetToBag({old})) (+) SetToBag({new})
Drop(bag, old) == bag (-) SetToBag({old})

(***************************************************************************)
(* Sent cache (the Sent-Item Ledger).                                      *)
(***************************************************************************)
\* Set.prototype.has
Has(set, name) == \E i \in 1..Len(set) : set[i] = name

\* Set.prototype.add: insertion order, no duplicates
Add(set, name) == IF Has(set, name) THEN set ELSE Append(set, name)

RECURSIVE NewSet(_)
\* new Set(array): the array's elements in order, duplicates dropped
NewSet(array) ==
  IF array = <<>> THEN <<>>
  ELSE LET rest == NewSet(SubSeq(array, 1, Len(array) - 1))
       IN Add(rest, array[Len(array)])

\* loadSentCache: the parsed file, or the empty set when it cannot be read
loadSentCache(d) == IF d.readable THEN NewSet(d.items) ELSE <<>>

\* The outcomes of fs.writeFileSync(SENT_CACHE_FILE, JSON.stringify([...set])):
\*   "ok"    the file holds the set;
\*   "fail"  the file could not be opened, it is as before (the error is caught);
\*   "torn"  the file was truncated and the write failed (the error is caught).
SaveOutcomes == {"ok", "fail", "torn"}

saveSentCache(d, set, outcome) ==
  CASE outcome = "ok"   -> [readable |-> TRUE, items |-> set]
    [] outcome = "fail" -> d
    [] outcome = "torn" -> [readable |-> FALSE, items |-> <<>>]

(***************************************************************************)
(* Connection manager.                                                     *)
(***************************************************************************)
\* A socket is "connecting" (the spec's Pairing), "open", "closed" (the session
\* ended for a reason other than a logout) or "loggedOut".
SockIds == 1..Len(socks)

Live(s) == socks[s] \in {"connecting", "open"}

\* The lastDisconnect of a close event: error.output.statusCode and error.status,
\* 0 for a field that is absent.
Disconnects ==
  {[statusCode |-> LoggedOut, status |-> 0],
   [statusCode |-> ConnectionLost, status |-> 0],
   [statusCode |-> 0, status |-> 0]}

\* a || b on numbers
OrNum(a, b) == IF a = 0 THEN b ELSE a

\* lastDisconnect?.error?.output?.statusCode || lastDisconnect?.error?.status || 0
CloseCode(ld) == OrNum(OrNum(ld.statusCode, ld.status), 0)

\* mutant: a close that carries no status code is not retried either
shouldReconnect_OnlyWithCode(code) == code # LoggedOut /\ code # 0

\* const shouldReconnect = code !== DisconnectReason.loggedOut
shouldReconnect(code) == code # LoggedOut

\* the state of a socket the transport closed with lastDisconnect ld
ClosedAs(ld) == IF ld.statusCode = LoggedOut THEN "loggedOut" ELSE "closed"

\* the spec's Connection State, read off the latest socket
ConnState ==
  IF socks = <<>> THEN "Disconnected"
  ELSE CASE socks[Len(socks)] = "connecting" -> "Pairing"
         [] socks[Len(socks)] = "open" -> "Open"
         [] OTHER -> "Disconnected"

(***************************************************************************)
(* Pairing challenge: the qr branch of the connection.update handler.      *)
(***************************************************************************)
\* the qr strings the transport hands over
QrCodes == {"2@ref1", "2@ref2"}

\* QRCode.toDataURL(qr): the data URL of the rendered image
toDataURL(qr) ==
  CASE qr = "2@ref1" -> "data:image/png;base64,ref1"
    [] qr = "2@ref2" -> "data:image/png;base64,ref2"

\* a connection.update handler of socket s at `await QRCode.toDataURL(qr)`
NewQrTask(s, qr) == [sock |-> s, qr |-> qr]

(***************************************************************************)
(* Bucket sync: pollBucketAndSend.                                         *)
(***************************************************************************)
\* mutant: the listing is asked for in ascending order of creation
ListBucket_Ascending(b) == SubSeq(b, 1, Min(Len(b), ListLimit))

\* storage.list('', {limit: 100, sortBy: {column: 'created_at', order: 'desc'}})
ListBucket(b) == SubSeq(Reverse(b), 1, Min(Len(b), ListLimit))

\* where the scan of `for (const file of data)` resumes after entry i
ScanFrom_SkipOne(i) == i + 2

\* the entry the for loop goes on with after entry i
ScanFrom(i) == i + 1

RECURSIVE NextCandidate_NoLedgerCheck(_, _, _)
\* mutant: the loop without `if (sentFiles.has(file.name)) continue`
NextCandidate_NoLedgerCheck(data, i, set) ==
  IF i > Len(data) THEN i
  ELSE IF ~IsPdf(data[i]) THEN NextCandidate_NoLedgerCheck(data, i + 1, set)
  ELSE i

RECURSIVE NextCandidate(_, _, _)
\* The for loop from entry i on: the first entry that is a pdf and not in the
\* sent cache, or Len(data) + 1 when the loop runs off the listing.
NextCandidate(data, i, set) ==
  IF i > Len(data) THEN i
  ELSE IF ~IsPdf(data[i]) THEN NextCandidate(data, i + 1, set)
  ELSE IF Has(set, data[i]) THEN NextCandidate(data, i + 1, set)
  ELSE i

\* a call of pollBucketAndSend up to its first await
NewBucketCycle(s) ==
  [pc |-> "list", sock |-> s, data |-> <<>>, idx |-> 0,
   base |-> Range(sentFiles), log |-> <<>>]

\* the loop goes on from entry i: it stops at the await of getPublicUrl for the
\* next candidate, or the cycle ends
BucketResume(bag, c, i, set, log) ==
  LET j == NextCandidate(c.data, i, set)
  IN IF j > Len(c.data) THEN Drop(bag, c)
     ELSE Swap(bag, c, [c EXCEPT !.pc = "url", !.idx = j, !.log = log])

(***************************************************************************)
(* Outbox sync: pollOutboxAndSend.                                         *)
(***************************************************************************)
Null == "null"
GROUP_JID == "group@g.us"
OtherJid == "user@s.whatsapp.net"
\* new Date().toISOString(): the model keeps no clock, a time is a time
Now == "time"
\* the id of the message sendMessage resolves with
MsgId == "3EB0"

\* what the external writer puts in a row's message and to columns
Messages == {"", "hi"}
Targets == {Null, OtherJid}

NewRow(message, to) ==
  [message |-> message, to |-> to, sent_at |-> Null, wa_msg_id |-> Null]

\* a || b on strings and null
OrElse(a, b) == IF a = Null \/ a = "" THEN b ELSE a

\* the ids of the rows .is('sent_at', null) lets through
Unsent(table) == {r \in 1..Len(table) : table[r].sent_at = Null}

RECURSIVE Choose(_, _)
\* the subsets of k elements of the set S of numbers
Choose(S, k) ==
  IF k = 0 THEN {{}}
  ELSE UNION {{l \cup {x} : l \in Choose({y \in S : y > x}, k - 1)} : x \in S}

\* the sets of rows a select with .limit(50) and no order may return: all the
\* unsent rows, or any 50 of them
Batches(table) ==
  IF Cardinality(Unsent(table)) <= OutboxLimit THEN {Unsent(table)}
  ELSE {Unsent(table) \ l :
          l \in Choose(Unsent(table), Cardinality(Unsent(table)) - OutboxLimit)}

\* the rows of batch b from id r on, as the array the select resolves with, in
\* id order
InIdOrder(table, b, r) ==
  LET all == [x \in 1..Len(table) |->
                [id |-> x, message |-> table[x].message, to |-> table[x].to]]
      InBatch(row) == row.id \in b /\ row.id >= r
  IN SelectSeq(all, InBatch)

\* The for loop from row i on: the first row with a message, or Len(data) + 1
\* (i itself when the loop has run off the array).
NextRow(data, i) ==
  LET withMessage == {j \in i..Len(data) : OrElse(data[j].message, "") # ""}
  IN IF withMessage # {} THEN CHOOSE j \in withMessage :
                                \A k \in withMessage : j <= k
     ELSE IF i > Len(data) THEN i
     ELSE Len(data) + 1

NewOutboxCycle(s) ==
  [pc |-> "select", sock |-> s, data |-> <<>>, idx |-> 0, to |-> Null,
   res |-> Null]

\* the loop goes on from row i: it stops at the await of sock.sendMessage for the
\* next row with a message, or the cycle ends
OutboxResume(bag, c, i) ==
  LET j == NextRow(c.data, i)
  IN IF j > Len(c.data) THEN Drop(bag, c)
     ELSE Swap(bag, c, [c EXCEPT !.pc = "send", !.idx = j, !.res = Null,
                                 !.to = OrElse(c.data[j].to, GROUP_JID)])

(***************************************************************************)
(* Inbox archiver: the messages.upsert handler.                            *)
(***************************************************************************)
MeJid == "me@s.whatsapp.net"

\* m.key.remoteJid and the four text fields of m.message, "" for an absent one
Plain ==
  [remoteJid |-> OtherJid, conversation |-> "hi", extendedText |-> "",
   imageCaption |-> "", videoCaption |-> ""]
Caption ==
  [remoteJid |-> OtherJid, conversation |-> "", extendedText |-> "",
   imageCaption |-> "cap", videoCaption |-> ""]
Sticker ==
  [remoteJid |-> OtherJid, conversation |-> "", extendedText |-> "",
   imageCaption |-> "", videoCaption |-> ""]

\* the messages arrays of the events, and their type tags
UpsertBatches == {<<Plain, Sticker, Caption>>, <<Sticker>>, <<Caption, Plain>>}
UpsertTypes == {"notify", "append"}

\* conversation || extendedTextMessage.text || imageMessage.caption ||
\* videoMessage.caption || ''
Text(m) ==
  OrElse(m.conversation,
         OrElse(m.extendedText, OrElse(m.imageCaption, OrElse(m.videoCaption, ""))))

\* mutant: every batch is archived, whatever its type
IsNotify_Any(type) == TRUE

\* if (type !== 'notify') return
IsNotify(type) == type = "notify"

\* sock.user?.id || ''
UserId(s) == OrElse(IF socks[s] = "connecting" THEN Null ELSE MeJid, "")

\* the object handed to insert for message m
InboxRecord(s, m) ==
  [from_jid |-> OrElse(m.remoteJid, ""), to_jid |-> UserId(s),
   message |-> Text(m), received_at |-> Now]

RECURSIVE NextText(_, _)
\* The for loop from message i on: the first message with text, or
\* Len(messages) + 1 when the loop runs off the array.
NextText(messages, i) ==
  IF i > Len(messages) THEN i
  ELSE IF Text(messages[i]) = "" THEN NextText(messages, i + 1)
  ELSE i

\* The handler of task t (or a new handler) goes on from message i: it is
\* suspended at the insert of the next message with text, or it returns.
InboxResume(bag, s, type, messages, i) ==
  LET j == NextText(messages, i)
  IN IF j > Len(messages) THEN bag
     ELSE bag (+) SetToBag({[sock |-> s, type |-> type, messages |-> messages,
                             idx |-> j, rec |-> InboxRecord(s, messages[j])]})

\* how an insert ends: the row is stored, the call resolves with an error
\* (which the handler does not read), or it throws (which the catch logs)
InsertOutcomes == {"ok", "error", "throw"}

(***************************************************************************)
(* Initial state: the module has been evaluated, startWhatsApp() has been  *)
(* called and awaits useMultiFileAuthState.                                *)
(***************************************************************************)
NoFile == [readable |-> FALSE, items |-> <<>>]

Boot(d) ==
  /\ sentFiles = loadSentCache(d)
  /\ loaded = Range(loadSentCache(d))
  /\ starting = 1
  /\ socks = <<>>
  /\ bucketTimers = {}
  /\ outboxTimers = {}
  /\ bcycles = EmptyBag
  /\ ocycles = EmptyBag
  /\ okCount = [n \in Files |-> 0]
  /\ latestQRDataURL = ""
  /\ qrTasks = EmptyBag
  /\ openedBrowser = {}
  /\ itasks = EmptyBag
  /\ lastInsert = "none"
  /\ listFailed = FALSE

Init ==
  /\ bucket = <<>>
  /\ rows = <<>>
  /\ disk = NoFile
  /\ Boot(NoFile)
  /\ crashes = 0
  /\ everSent = {}
  /\ lost = {}
  /\ rowOk = <<>>
  /\ inbox = <<>>
  /\ upserts = 0

\* a table the external writer filled before the process started: as many
\* rows with an empty message as a select returns, then a row with a message
Backlog ==
  [r \in 1..(OutboxLimit + 1) |->
     IF r <= OutboxLimit THEN NewRow("", Null) ELSE NewRow("hi", Null)]

\* the state after construction when the table holds Backlog
InitBacklog ==
  /\ bucket = <<>>
  /\ rows = Backlog
  /\ disk = NoFile
  /\ Boot(NoFile)
  /\ crashes = 0
  /\ everSent = {}
  /\ lost = {}
  /\ rowOk = [r \in 1..(OutboxLimit + 1) |-> 0]
  /\ inbox = <<>>
  /\ upserts = 0

(***************************************************************************)
(* Actions of the connection manager.                                      *)
(***************************************************************************)
\* startWhatsApp from makeWASocket to its end: the socket, its handlers, the two
\* intervals, and the first call of each poll function up to its first await.
MakeSocket ==
  /\ starting > 0
  /\ BagCardinality(bcycles) < MaxCycles
  /\ BagCardinality(ocycles) < MaxCycles
  /\ LET s == Len(socks) + 1
     IN /\ socks' = Append(socks, "connecting")
        /\ bucketTimers' = bucketTimers \cup {s}
        /\ outboxTimers' = outboxTimers \cup {s}
        /\ bcycles' = bcycles (+) SetToBag({NewBucketCycle(s)})
        /\ ocycles' = ocycles (+) SetToBag({NewOutboxCycle(s)})
  /\ starting' = starting - 1
  /\ UNCHANGED <<bucket, disk, sentFiles, loaded, okCount, everSent, lost,
                 rows, rowOk, crashes, pairVars, inboxVars, listFailed>>

\* connection.update with connection === 'open': the challenge is cleared
OpenEvent(s) ==
  /\ socks[s] = "connecting"
  /\ socks' = [socks EXCEPT ![s] = "open"]
  /\ latestQRDataURL' = ""
  /\ UNCHANGED <<starting, bucketTimers, outboxTimers, bucketVars, outboxVars,
                 crashes, qrTasks, openedBrowser, inboxVars, listFailed>>

\* connection.update with connection === 'close'
CloseEvent(s, ld) ==
  /\ Live(s)
  /\ shouldReconnect(CloseCode(ld)) => Len(socks) + starting < MaxSocks
  /\ socks' = [socks EXCEPT ![s] = ClosedAs(ld)]
  /\ starting' = IF shouldReconnect(CloseCode(ld)) THEN starting + 1 ELSE starting
  /\ UNCHANGED <<bucketTimers, outboxTimers, bucketVars, outboxVars, crashes, pairVars, inboxVars, listFailed>>

(***************************************************************************)
(* Actions of the pairing challenge and of the inbox archiver.             *)
(***************************************************************************)
\* connection.update with a qr: the handler awaits QRCode.toDataURL(qr)
QrEvent(s, qr) ==
  /\ socks[s] = "connecting"
  /\ BagCardinality(qrTasks) < MaxQr
  /\ qrTasks' = qrTasks (+) SetToBag({NewQrTask(s, qr)})
  /\ UNCHANGED <<connVars, bucketVars, outboxVars, crashes, latestQRDataURL,
                 openedBrowser, inboxVars, listFailed>>

\* toDataURL resolves: latestQRDataURL is assigned, the browser is opened the
\* first time; what follows `await open(...)` in the handler changes nothing
QrRendered(t) ==
  /\ latestQRDataURL' = toDataURL(t.qr)
  /\ openedBrowser' = openedBrowser \cup {t.sock}
  /\ qrTasks' = Drop(qrTasks, t)
  /\ UNCHANGED <<connVars, bucketVars, outboxVars, crashes, inboxVars,
                 listFailed>>

\* messages.upsert: the handler runs to its first insert
UpsertEvent(s, type, messages) ==
  /\ socks[s] = "open"
  /\ upserts < MaxUpserts
  /\ upserts' = upserts + 1
  /\ itasks' = IF IsNotify(type) THEN InboxResume(itasks, s, type, messages, 1)
                ELSE itasks
  /\ UNCHANGED <<connVars, bucketVars, outboxVars, crashes, pairVars, inbox,
                 lastInsert, listFailed>>

\* the insert of handler t ends, and the loop goes on either way
InsertDone(t, outcome) ==
  /\ inbox' = IF outcome = "ok" THEN Append(inbox, t.rec) ELSE inbox
  /\ lastInsert' = outcome
  /\ itasks' = InboxResume(Drop(itasks, t), t.sock, t.type, t.messages,
                            t.idx + 1)
  /\ UNCHANGED <<connVars, bucketVars, outboxVars, crashes, pairVars, upserts,
                 listFailed>>

(***************************************************************************)
(* Actions of the bucket sync engine.                                      *)
(***************************************************************************)
\* a document is uploaded to the bucket (the environment)
Upload(name) ==
  /\ name \notin Range(bucket)
  /\ \E o \in UploadOrders : SubSeq(o, 1, Len(bucket) + 1) = Append(bucket, name)
  /\ bucket' = Append(bucket, name)
  /\ UNCHANGED <<connVars, disk, sentFiles, bcycles, loaded, okCount, everSent,
                 lost, outboxVars, crashes, pairVars, inboxVars, listFailed>>

\* the interval set by startWhatsApp for socket s fires
TickBucket(s) ==
  /\ s \in bucketTimers
  /\ BagCardinality(bcycles) < MaxCycles
  /\ bcycles' = bcycles (+) SetToBag({NewBucketCycle(s)})
  /\ UNCHANGED <<connVars, bucket, disk, sentFiles, loaded, okCount, everSent,
                 lost, outboxVars, crashes, pairVars, inboxVars, listFailed>>

\* mutant: the error of storage.list is thrown out of the timer callback and
\* ends every timer and every call in flight
ListReturn_Fatal(c) ==
  /\ c.pc = "list"
  /\ bcycles' = EmptyBag
  /\ ocycles' = EmptyBag
  /\ bucketTimers' = {}
  /\ outboxTimers' = {}
  /\ UNCHANGED <<starting, socks, bucket, disk, sentFiles, loaded, okCount,
                 everSent, lost, rows, rowOk, crashes, pairVars, inboxVars>>

\* if (error) { console.warn(...); return; }
ListReturn(c) ==
  /\ c.pc = "list"
  /\ bcycles' = Drop(bcycles, c)
  /\ UNCHANGED <<connVars, bucket, disk, sentFiles, loaded, okCount, everSent,
                 lost, outboxVars, crashes, pairVars, inboxVars>>

\* storage.list resolves with an error: the cycle returns
ListError(c) == ListReturn(c) /\ UNCHANGED listFailed

\* the same step, noted in the ghost
ListErrorNoted(c) == ListReturn(c) /\ listFailed' = TRUE

\* storage.list resolves with the listing: the loop runs to its first candidate
ListOk(c) ==
  /\ c.pc = "list"
  /\ LET d == [c EXCEPT !.data = ListBucket(bucket)]
     IN bcycles' = BucketResume(Swap(bcycles, c, d), d, 1, sentFiles, d.log)
  /\ UNCHANGED <<connVars, bucket, disk, sentFiles, loaded, okCount, everSent,
                 lost, outboxVars, crashes, pairVars, inboxVars, listFailed>>

\* getPublicUrl resolves with an error or without a url: on to the next entry
UrlFail(c) ==
  /\ c.pc = "url"
  /\ bcycles' = BucketResume(bcycles, c, ScanFrom(c.idx), sentFiles, c.log)
  /\ UNCHANGED <<connVars, bucket, disk, sentFiles, loaded, okCount, everSent,
                 lost, outboxVars, crashes, pairVars, inboxVars, listFailed>>

\* getPublicUrl resolves with the url: sock.sendMessage is called
UrlOk(c) ==
  /\ c.pc = "url"
  /\ bcycles' = Swap(bcycles, c, [c EXCEPT !.pc = "send"])
  /\ UNCHANGED <<connVars, bucket, disk, sentFiles, loaded, okCount, everSent,
                 lost, outboxVars, crashes, pairVars, inboxVars, listFailed>>

\* sock.sendMessage rejects: the catch of pollBucketAndSend ends the cycle
SendFail(c) ==
  /\ c.pc = "send"
  /\ bcycles' = Drop(bcycles, c)
  /\ UNCHANGED <<connVars, bucket, disk, sentFiles, loaded, okCount, everSent,
                 lost, outboxVars, crashes, pairVars, inboxVars, listFailed>>

\* mutant: the sent cache is replaced by a set of the one name
AfterSend_Replace(set, name) == <<name>>

\* mutant: the name is not added after the send
AfterSend_NoAdd(set, name) == set

\* the sent cache after a send of `name` returned: sentFiles.add(file.name)
AfterSend(set, name) == Add(set, name)

\* sock.sendMessage resolves: sentFiles.add, saveSentCache, and the loop goes on
SendOk(c, outcome) ==
  /\ c.pc = "send"
  /\ socks[c.sock] = "open"
  /\ LET name == c.data[c.idx]
         set == AfterSend(sentFiles, name)
     IN /\ sentFiles' = set
        /\ disk' = saveSentCache(disk, set, outcome)
        /\ okCount' = [okCount EXCEPT ![name] = Bump(@)]
        /\ everSent' = everSent \cup {name}
        /\ bcycles' = BucketResume(bcycles, c, ScanFrom(c.idx), set,
                                   Append(c.log, c.idx))
  /\ UNCHANGED <<connVars, bucket, loaded, lost, outboxVars, crashes, pairVars, inboxVars, listFailed>>

(***************************************************************************)
(* Actions of the outbox sync engine.                                      *)
(***************************************************************************)
\* a row is inserted in messages_outbox (the environment)
InsertRow(message, to) ==
  /\ Len(rows) < MaxRows
  /\ rows' = Append(rows, NewRow(message, to))
  /\ rowOk' = Append(rowOk, 0)
  /\ UNCHANGED <<connVars, bucketVars, ocycles, crashes, pairVars, inboxVars, listFailed>>

\* the interval set by startWhatsApp for socket s fires
TickOutbox(s) ==
  /\ s \in outboxTimers
  /\ BagCardinality(ocycles) < MaxCycles
  /\ ocycles' = ocycles (+) SetToBag({NewOutboxCycle(s)})
  /\ UNCHANGED <<connVars, bucketVars, rows, rowOk, crashes, pairVars, inboxVars, listFailed>>

\* the select resolves with an error (the table may not exist): the cycle returns
SelectError(c) ==
  /\ c.pc = "select"
  /\ ocycles' = Drop(ocycles, c)
  /\ UNCHANGED <<connVars, bucketVars, rows, rowOk, crashes, pairVars, inboxVars, listFailed>>

\* the select resolves with rows: the loop runs to its first sendMessage
SelectOk(c, batch) ==
  /\ c.pc = "select"
  /\ LET d == [c EXCEPT !.data = InIdOrder(rows, batch, 1)]
     IN ocycles' = OutboxResume(Swap(ocycles, c, d), d, 1)
  /\ UNCHANGED <<connVars, bucketVars, rows, rowOk, crashes, pairVars, inboxVars, listFailed>>

\* sock.sendMessage rejects: the catch of pollOutboxAndSend ends the cycle
OutboxSendFail(c) ==
  /\ c.pc = "send"
  /\ ocycles' = Drop(ocycles, c)
  /\ UNCHANGED <<connVars, bucketVars, rows, rowOk, crashes, pairVars, inboxVars, listFailed>>

\* sock.sendMessage resolves with res: the update of the row is issued
OutboxSendOk(c, id) ==
  /\ c.pc = "send"
  /\ socks[c.sock] = "open"
  /\ rowOk' = [rowOk EXCEPT ![c.data[c.idx].id] = Bump(@)]
  /\ ocycles' = Swap(ocycles, c, [c EXCEPT !.pc = "update", !.res = OrElse(id, Null)])
  /\ UNCHANGED <<connVars, bucketVars, rows, crashes, pairVars, inboxVars, listFailed>>

\* the update resolves, with the row written or with an error the code does not
\* read: the loop goes on
UpdateDone(c, written) ==
  /\ c.pc = "update"
  /\ rows' = IF written
             THEN [rows EXCEPT ![c.data[c.idx].id].sent_at = Now,
                               ![c.data[c.idx].id].wa_msg_id = c.res]
             ELSE rows
  /\ ocycles' = OutboxResume(ocycles, c, c.idx + 1)
  /\ UNCHANGED <<connVars, bucketVars, rowOk, crashes, pairVars, inboxVars, listFailed>>

(***************************************************************************)
(* The process dies and is started again: module state is rebuilt from the *)
(* disk, the bucket and the table are as they were.                        *)
(***************************************************************************)
Restart ==
  /\ crashes < MaxCrashes
  /\ crashes' = crashes + 1
  /\ sentFiles' = loadSentCache(disk)
  /\ loaded' = Range(loadSentCache(disk))
  /\ starting' = 1
  /\ socks' = <<>>
  /\ bucketTimers' = {}
  /\ outboxTimers' = {}
  /\ bcycles' = EmptyBag
  /\ ocycles' = EmptyBag
  /\ okCount' = [n \in Files |-> 0]
  /\ latestQRDataURL' = ""
  /\ qrTasks' = EmptyBag
  /\ openedBrowser' = {}
  /\ itasks' = EmptyBag
  /\ lastInsert' = "none"
  /\ listFailed' = FALSE

\* the process dies at any point
Crash ==
  /\ Restart
  /\ UNCHANGED <<bucket, disk, everSent, lost, rows, rowOk, inbox, upserts,
                 lastInsert, listFailed>>

\* the process dies after sendMessage delivered the notification of cycle c and
\* before sentFiles.add and saveSentCache ran
CrashAfterSend(c) ==
  /\ c.pc = "send"
  /\ socks[c.sock] = "open"
  /\ Restart
  /\ everSent' = everSent \cup {c.data[c.idx]}
  /\ lost' = (lost \cup {c.data[c.idx]}) \ Range(loadSentCache(disk))
  /\ UNCHANGED <<bucket, disk, rows, rowOk, inbox, upserts,
                 lastInsert, listFailed>>

(***************************************************************************)
(* Next-state relation.                                                    *)
(***************************************************************************)
NextConn ==
  \/ MakeSocket
  \/ \E s \in SockIds : OpenEvent(s)
  \/ \E s \in SockIds, ld \in Disconnects : CloseEvent(s, ld)

NextBucket ==
  \/ \E name \in Files : Upload(name)
  \/ \E s \in SockIds : TickBucket(s)
  \/ \E c \in BagToSet(bcycles) : ListError(c)
  \/ \E c \in BagToSet(bcycles) : ListOk(c)
  \/ \E c \in BagToSet(bcycles) : UrlFail(c)
  \/ \E c \in BagToSet(bcycles) : UrlOk(c)
  \/ \E c \in BagToSet(bcycles) : SendFail(c)
  \/ \E c \in BagToSet(bcycles), o \in SaveOutcomes : SendOk(c, o)

NextOutbox ==
  \/ \E m \in Messages, to \in Targets : InsertRow(m, to)
  \/ \E s \in SockIds : TickOutbox(s)
  \/ \E c \in BagToSet(ocycles) : SelectError(c)
  \/ \E c \in BagToSet(ocycles), b \in Batches(rows) : SelectOk(c, b)
  \/ \E c \in BagToSet(ocycles) : OutboxSendFail(c)
  \/ \E c \in BagToSet(ocycles), id \in {MsgId, ""} : OutboxSendOk(c, id)
  \/ \E c \in BagToSet(ocycles), w \in BOOLEAN : UpdateDone(c, w)

NextCrash ==
  \/ Crash
  \/ \E c \in BagToSet(bcycles) : CrashAfterSend(c)

NextQr ==
  \/ \E s \in SockIds, qr \in QrCodes : QrEvent(s, qr)
  \/ \E t \in BagToSet(qrTasks) : QrRendered(t)

NextInbox ==
  \/ \E s \in SockIds, type \in UpsertTypes, messages \in UpsertBatches :
       UpsertEvent(s, type, messages)
  \/ \E t \in BagToSet(itasks), o \in InsertOutcomes : InsertDone(t, o)

Next == NextConn \/ NextBucket \/ NextOutbox \/ NextCrash \/ NextQr \/ NextInbox

\* the whole program
Spec == Init /\ [][Next]_vars

\* The connection manager and the bucket engine, no restart.  The outbox
\* engine shares only the sockets with them: its selects stay pending.
NextBucketOnly ==
  \/ NextConn
  \/ NextBucket

SpecBucket == Init /\ [][NextBucketOnly]_vars

\* The same, with restarts of the process.
SpecCrash == Init /\ [][NextBucketOnly \/ NextCrash]_vars

\* The connection manager and the outbox engine, no restart.  The listings of
\* the bucket engine stay pending.
NextOutboxOnly ==
  \/ NextConn
  \/ NextOutbox

SpecOutbox == Init /\ [][NextOutboxOnly]_vars

\* a qr has been handed over on socket s
Offered(s) ==
  s \in openedBrowser \/ \E t \in BagToSet(qrTasks) : t.sock = s

\* Pairing.  A socket that was handed a qr does not open: after the scan the
\* transport closes it for a restart and the session opens on the next socket.
\* The engines' first awaits stay pending.
NextPair ==
  \/ MakeSocket
  \/ \E s \in SockIds : ~Offered(s) /\ OpenEvent(s)
  \/ \E s \in SockIds, ld \in Disconnects : CloseEvent(s, ld)
  \/ NextQr

SpecPair == Init /\ [][NextPair]_vars

\* The connection manager and the inbox archiver.
NextInboxOnly ==
  \/ NextConn
  \/ NextInbox

SpecInbox == Init /\ [][NextInboxOnly]_vars

\* The outbox engine on a session that opens and stays open, where every send
\* and every awaited call resolves, started on the table Backlog.  Timers fire
\* and pending calls resolve: each step that stays possible is taken.
NextStarve ==
  \/ MakeSocket
  \/ \E s \in SockIds : OpenEvent(s)
  \/ \E s \in SockIds : TickOutbox(s)
  \/ \E c \in BagToSet(ocycles), b \in Batches(rows) : SelectOk(c, b)
  \/ \E c \in BagToSet(ocycles) : OutboxSendOk(c, MsgId)
  \/ \E c \in BagToSet(ocycles) : UpdateDone(c, TRUE)

FairStarve ==
  /\ WF_vars(MakeSocket)
  /\ WF_vars(\E s \in SockIds : OpenEvent(s))
  /\ WF_vars(\E s \in SockIds : TickOutbox(s))
  /\ WF_vars(\E c \in BagToSet(ocycles), b \in Batches(rows) : SelectOk(c, b))
  /\ WF_vars(\E c \in BagToSet(ocycles) : OutboxSendOk(c, MsgId))
  /\ WF_vars(\E c \in BagToSet(ocycles) : UpdateDone(c, TRUE))

SpecStarve == InitBacklog /\ [][NextStarve]_vars /\ FairStarve

\* The bucket engine on a session that opens and stays open, where listings
\* and urls resolve, every send of a.pdf is rejected and every other send
\* succeeds.  Timers fire and pending calls resolve.
NextPoison ==
  \/ MakeSocket
  \/ \E s \in SockIds : OpenEvent(s)
  \/ \E name \in Files : Upload(name)
  \/ \E s \in SockIds : TickBucket(s)
  \/ \E c \in BagToSet(bcycles) : ListOk(c)
  \/ \E c \in BagToSet(bcycles) : UrlOk(c)
  \/ \E c \in BagToSet(bcycles) :
       c.pc = "send" /\ c.data[c.idx] = FileA /\ SendFail(c)
  \/ \E c \in BagToSet(bcycles), o \in SaveOutcomes :
       c.pc = "send" /\ c.data[c.idx] # FileA /\ SendOk(c, o)

FairPoison ==
  /\ WF_vars(MakeSocket)
  /\ WF_vars(\E s \in SockIds : OpenEvent(s))
  /\ WF_vars(\E s \in SockIds : TickBucket(s))
  /\ WF_vars(\E c \in BagToSet(bcycles) : ListOk(c))
  /\ WF_vars(\E c \in BagToSet(bcycles) : UrlOk(c))
  /\ WF_vars(\E c \in BagToSet(bcycles) :
               c.pc = "send" /\ c.data[c.idx] = FileA /\ SendFail(c))
  /\ WF_vars(\E c \in BagToSet(bcycles), o \in SaveOutcomes :
               c.pc = "send" /\ c.data[c.idx] # FileA /\ SendOk(c, o))

SpecPoison == Init /\ [][NextPoison]_vars /\ FairPoison

\* Bucket cycles that run alone and meet no failure: a cycle starts only when
\* none is in flight, the listing, every url and every send succeed.
NextAlone ==
  \/ bcycles = EmptyBag /\ MakeSocket
  \/ \E s \in SockIds : OpenEvent(s)
  \/ \E s \in SockIds, ld \in Disconnects : CloseEvent(s, ld)
  \/ \E name \in Files : Upload(name)
  \/ \E s \in SockIds : bcycles = EmptyBag /\ TickBucket(s)
  \/ \E c \in BagToSet(bcycles) : ListOk(c)
  \/ \E c \in BagToSet(bcycles) : UrlOk(c)
  \/ \E c \in BagToSet(bcycles), o \in SaveOutcomes : SendOk(c, o)

SpecAlone == Init /\ [][NextAlone]_vars

\* Bucket cycles one at a time whose listing, url or send may fail.
NextListError ==
  \/ NextAlone
  \/ \E c \in BagToSet(bcycles) : ListErrorNoted(c)
  \/ \E c \in BagToSet(bcycles) : UrlFail(c)
  \/ \E c \in BagToSet(bcycles) : SendFail(c)

SpecListError == Init /\ [][NextListError]_vars

(***************************************************************************)
(* What the claims speak of.                                               *)
(***************************************************************************)
\* some call suspended in bag2 awaits a sendMessage that none in bag1 awaited:
\* the step from bag1 to bag2 called sock.sendMessage
Invoked(bag1, bag2) ==
  \E c \in BagToSet(bag2) :
    c.pc = "send" /\ CopiesIn(c, bag2) > CopiesIn(c, bag1)

\* one of the two engines calls sock.sendMessage in this step
InvokesSend == Invoked(bcycles, bcycles') \/ Invoked(ocycles, ocycles')

\* file x was created after file y
Newer(x, y) ==
  \E i, j \in 1..Len(bucket) : bucket[i] = x /\ bucket[j] = y /\ i > j

\* an update of row r has been issued and has not resolved
UpdatePending(r) ==
  \E c \in BagToSet(ocycles) : c.pc = "update" /\ c.data[c.idx].id = r

(***************************************************************************)
(* C1: with no restart of the process, under any interleaving of bucket    *)
(* cycles, every file name is sent successfully at most once.              *)
(* Violated: two cycles that overlap both pass the sentFiles check for the *)
(* same name before either records it.                                     *)
(***************************************************************************)
C1_SentAtMostOnce ==
  crashes = 0 => \A n \in Files : okCount[n] <= 1

(***************************************************************************)
(* C2: a cycle never calls sendMessage for a file whose name was in the    *)
(* sent cache when the cycle started.                                      *)
(***************************************************************************)
C2_RecordedNeverResent ==
  \A c \in BagToSet(bcycles) :
    c.pc = "send" => c.data[c.idx] \notin c.base

\* a cycle that found a recorded pdf in its listing, passed it over, and is
\* sending a later entry
C2_Witness ==
  \E c \in BagToSet(bcycles) :
    /\ c.pc = "send"
    /\ \E j \in 1..(c.idx - 1) : IsPdf(c.data[j]) /\ c.data[j] \in c.base

(***************************************************************************)
(* C3: in every state of a process run the sent cache holds exactly the    *)
(* names it was loaded with and the names whose send returned success in   *)
(* this run: nothing is added for a failed send, a skipped entry or a      *)
(* failed url, and the add is part of the step in which the send returns.  *)
(***************************************************************************)
C3_AddedIffSendOk ==
  Range(sentFiles) = loaded \cup {n \in Files : okCount[n] > 0}

\* one pdf sent and recorded, the other listed, not sent and not recorded, and
\* no cycle in flight
C3_Witness ==
  /\ okCount[FileA] = 1 /\ Has(sentFiles, FileA)
  /\ FileB \in Range(bucket) /\ okCount[FileB] = 0 /\ ~Has(sentFiles, FileB)
  /\ Newer(FileA, FileB)
  /\ bcycles = EmptyBag

(***************************************************************************)
(* C4: after a restart between a successful send and the write of the      *)
(* sent cache, the file is sent at most once more, and the file on disk    *)
(* never names a file that was not sent.                                   *)
(* Violated in its first half: the cycles of the new run overlap (C1).     *)
(***************************************************************************)
C4_ResentAtMostOnce ==
  /\ \A n \in lost : okCount[n] <= 1
  /\ disk.readable => Range(disk.items) \subseteq everSent

(***************************************************************************)
(* C5: once a send for an outbox row has succeeded, the row has sent_at    *)
(* set as soon as the cycle's update has resolved, and no send for it      *)
(* succeeds again.                                                         *)
(* Violated: the result of the update is not read, and cycles overlap.     *)
(***************************************************************************)
C5_RowSentOnce ==
  \A r \in 1..Len(rows) :
    rowOk[r] >= 1 =>
      /\ rowOk[r] = 1
      /\ UpdatePending(r) \/ rows[r].sent_at # Null

(***************************************************************************)
(* C6: an outbox cycle that stops at a send (the send failed) has no later *)
(* row with a message left in its batch: a failed send does not abort the  *)
(* rows after it.                                                          *)
(* Violated: the catch is around the whole loop.                           *)
(***************************************************************************)
C6_FailureDoesNotAbort ==
  [][\A c \in BagToSet(ocycles) :
       (c.pc = "send" /\ ocycles' = Drop(ocycles, c))
         => NextRow(c.data, c.idx + 1) > Len(c.data)]_vars

(***************************************************************************)
(* C7: every close of a session for a reason other than a logout calls     *)
(* startWhatsApp again.                                                    *)
(***************************************************************************)
C7_ReconnectsOnClose ==
  [][\A s \in SockIds \cap DOMAIN socks' :
       (Live(s) /\ socks'[s] = "closed") => starting' = starting + 1]_vars

\* a session closed for another reason than a logout, and its successor is open
C7_Witness ==
  /\ Len(socks) >= 2
  /\ socks[Len(socks) - 1] = "closed"
  /\ socks[Len(socks)] = "open"

(***************************************************************************)
(* C8: a close with the logged-out reason does not call startWhatsApp, and *)
(* once a session was logged out neither engine calls sendMessage until    *)
(* the process is restarted.                                               *)
(* Violated in its second half: the intervals are never cleared.           *)
(***************************************************************************)
C8_NoSendAfterLogout ==
  [][/\ \A s \in SockIds \cap DOMAIN socks' :
          (Live(s) /\ socks'[s] = "loggedOut") => starting' = starting
     /\ (\E s \in SockIds : socks[s] = "loggedOut") => ~InvokesSend]_vars

(***************************************************************************)
(* C9: neither engine calls sendMessage while the connection state is      *)
(* Disconnected or Pairing.                                                *)
(* Violated: startWhatsApp starts both engines right after makeWASocket.   *)
(***************************************************************************)
C9_NoSendBeforeOpen ==
  [][InvokesSend => ConnState' = "Open"]_vars

(***************************************************************************)
(* C10: the sends of one bucket cycle follow the listing: each send begins *)
(* after the sends before it returned, at a later entry of the listing,    *)
(* which is an older file.                                                 *)
(***************************************************************************)
C10_SendsInListingOrder ==
  \A c \in BagToSet(bcycles) :
    /\ \A i, j \in 1..Len(c.log) :
         i < j => c.log[i] < c.log[j] /\ Newer(c.data[c.log[i]], c.data[c.log[j]])
    /\ c.pc = "send" =>
         \A i \in 1..Len(c.log) :
           c.log[i] < c.idx /\ Newer(c.data[c.log[i]], c.data[c.idx])

\* a cycle whose first send returned and whose second send is under way
C10_Witness ==
  \E c \in BagToSet(bcycles) : c.pc = "send" /\ c.log # <<>>
(***************************************************************************)
(* C11: a bucket cycle that runs alone on listing L with sent cache S, whose*)
(* urls and sends all succeed, sends exactly the names of L that end in    *)
(* .pdf and are not in S, each once, and leaves the sent cache at S plus   *)
(* those names.  Stated of the step that ends the cycle.                   *)
(***************************************************************************)
\* the names of listing `data` that are pdfs and not in `base`
Due(data, base) ==
  {data[j] : j \in {i \in 1..Len(data) : IsPdf(data[i]) /\ data[i] \notin base}}

C11_CycleAloneSendsDue ==
  [][\A c \in BagToSet(bcycles) :
       (bcycles' = EmptyBag /\ c.pc \in {"list", "send"}) =>
         LET data == IF c.pc = "list" THEN ListBucket(bucket) ELSE c.data
             log == IF c.pc = "send" THEN Append(c.log, c.idx) ELSE c.log
         IN /\ {data[log[k]] : k \in 1..Len(log)} = Due(data, c.base)
            /\ Cardinality({log[k] : k \in 1..Len(log)}) = Len(log)
            /\ Range(sentFiles') = c.base \cup Due(data, c.base)]_vars

\* one cycle has sent a.pdf then b.PDF from the listing [a.pdf, b.PDF, n.txt]
C11_Witness ==
  /\ bcycles = EmptyBag
  /\ ListBucket(bucket) = <<FileA, FileB, FileN>>
  /\ sentFiles = <<FileA, FileB>>
  /\ okCount[FileA] = 1 /\ okCount[FileB] = 1

(***************************************************************************)
(* C12: the sent cache is written through: whenever a bucket cycle is at a *)
(* candidate (awaiting its url or its send), the sent cache file holds the *)
(* names of the in-memory sent cache, also after a write that failed.      *)
(* Violated: saveSentCache catches the error of writeFileSync and only     *)
(* warns, and the loop goes on to the next candidate.                      *)
(***************************************************************************)
C12_WriteThrough ==
  \A c \in BagToSet(bcycles) :
    c.pc \in {"url", "send"} => Range(loadSentCache(disk)) = Range(sentFiles)

(***************************************************************************)
(* C13: within a run of the process, a name that is in the in-memory sent  *)
(* cache stays in it: no step of the connection manager (reconnects        *)
(* included) or of an engine removes a name.                               *)
(***************************************************************************)
C13_LedgerMonotone ==
  [][crashes' = crashes => Range(sentFiles) \subseteq Range(sentFiles')]_vars

\* two names are in the sent cache and the first session has been replaced
C13_Witness ==
  /\ Len(sentFiles) = 2
  /\ Len(socks) = 2 /\ socks[1] = "closed"
  /\ bcycles = EmptyBag

(***************************************************************************)
(* C14: when the listing call of a bucket cycle gives an error (here: the  *)
(* first error of the run), the cycle ends there without calling send, the *)
(* in-memory sent cache and its file are as before, the process goes on,   *)
(* and the timers that start the next cycles are as before.                *)
(***************************************************************************)
C14_ListErrorIsSilent ==
  [][\A c \in BagToSet(bcycles) :
       (c.pc = "list" /\ CopiesIn(c, bcycles') < CopiesIn(c, bcycles)
        /\ ~listFailed /\ listFailed') =>
         /\ bcycles' = Drop(bcycles, c)
         /\ ~InvokesSend
         /\ sentFiles' = sentFiles /\ disk' = disk
         /\ crashes' = crashes
         /\ bucketTimers' = bucketTimers /\ outboxTimers' = outboxTimers
         /\ socks' = socks /\ starting' = starting]_vars

\* a listing has failed while a.pdf was waiting and b.PDF was recorded; the
\* next cycle is at a.pdf
C14_Witness ==
  /\ listFailed
  /\ sentFiles = <<FileB>>
  /\ \E c \in BagToSet(bcycles) : c.pc = "send" /\ c.data[c.idx] = FileA

(***************************************************************************)
(* C15: whenever the connection state is Open, no pairing challenge is     *)
(* held for the QR page.                                                   *)
(* Violated: a handler that awaits QRCode.toDataURL when the open event is *)
(* handled assigns latestQRDataURL after the open event cleared it.        *)
(***************************************************************************)
C15_OpenHasNoChallenge == ConnState = "Open" => latestQRDataURL = ""

(***************************************************************************)
(* C16: the inbox archiver hands one record to insert for each message     *)
(* with text of a batch of type notify, in order, and stores it when the   *)
(* insert succeeds; it hands over nothing for a batch of another type or   *)
(* for a message without text; an insert that fails does not keep the      *)
(* later messages of the batch from being archived.                        *)
(***************************************************************************)
\* the indices after i of the messages of t's batch that have text
TextAfter(t, i) == {j \in (i + 1)..Len(t.messages) : Text(t.messages[j]) # ""}

\* the step starts a handler suspended at message j of `messages`
Started(type, messages, j) ==
  \E u \in BagToSet(itasks') :
    /\ u.type = type /\ u.messages = messages /\ u.idx = j
    /\ u.rec.message = Text(messages[j]) /\ u.rec.from_jid = messages[j].remoteJid
    /\ CopiesIn(u, itasks') > CopiesIn(u, itasks)

C16_OneRecordPerText ==
  [][/\ \A u \in BagToSet(itasks') :
          u.type = "notify" /\ Text(u.messages[u.idx]) # ""
     /\ upserts' # upserts => inbox' = inbox
     /\ \A t \in BagToSet(itasks) :
          (CopiesIn(t, itasks') < CopiesIn(t, itasks) /\ crashes' = crashes) =>
            /\ inbox' = IF lastInsert' = "ok" THEN Append(inbox, t.rec) ELSE inbox
            /\ IF TextAfter(t, t.idx) = {} THEN itasks' = Drop(itasks, t)
               ELSE Started(t.type, t.messages,
                            CHOOSE j \in TextAfter(t, t.idx) :
                              \A k \in TextAfter(t, t.idx) : j <= k)]_vars

\* the insert for "hi" failed, the sticker was passed over, and the handler is
\* at the insert for the caption
C16_Witness ==
  /\ upserts = 1
  /\ inbox = <<>> /\ lastInsert = "error"
  /\ \E t \in BagToSet(itasks) :
       t.messages = <<Plain, Sticker, Caption>> /\ t.idx = 3 /\ t.rec.message = "cap"

(***************************************************************************)
(* C17: after any closes and reconnects there is at most one timer of the  *)
(* bucket engine and at most one of the outbox engine, and every send an   *)
(* engine calls goes through the latest socket, which has not closed.      *)
(* Violated: every startWhatsApp adds two setInterval timers bound to its  *)
(* own sock and none is ever cleared.                                      *)
(***************************************************************************)
\* the sockets on which this step calls sock.sendMessage
SendsOn ==
  {c.sock : c \in {d \in BagToSet(bcycles') :
                     d.pc = "send" /\ CopiesIn(d, bcycles') > CopiesIn(d, bcycles)}}
  \cup
  {c.sock : c \in {d \in BagToSet(ocycles') :
                     d.pc = "send" /\ CopiesIn(d, ocycles') > CopiesIn(d, ocycles)}}

C17_OneSchedulerLiveSession ==
  [][/\ Cardinality(bucketTimers') <= 1
     /\ Cardinality(outboxTimers') <= 1
     /\ \A s \in SendsOn :
          s = Len(socks') /\ socks'[s] \in {"connecting", "open"}]_vars

(***************************************************************************)
(* C18: when sends succeed, every row with a message and no sent_at is     *)
(* sent in the end, also when the table holds rows with an empty message:  *)
(* the rows the loop passes over never fill the batch of the select for    *)
(* good.                                                                   *)
(* Violated: a row with an empty message is passed over and keeps sent_at  *)
(* null, so 50 such rows can be what the select with limit 50 returns on   *)
(* every cycle.                                                            *)
(***************************************************************************)
C18_DeliverableRowIsSent ==
  <>(\A r \in 1..Len(rows) : rows[r].message # "" => rowOk[r] >= 1)

(***************************************************************************)
(* C19: a file whose send fails on every cycle does not keep the other     *)
(* unsent pdfs of the listing from being delivered: b.PDF, whose send      *)
(* succeeds, is in the sent cache in the end wherever it stands in the     *)
(* listing.                                                                *)
(* Violated: a rejected sendMessage is caught outside the for loop, so the *)
(* cycle ends at the failing entry and the entries listed after it are not *)
(* reached, on this cycle and on every later one.                          *)
(***************************************************************************)
C19_OthersAreDelivered ==
  (FileB \in Range(bucket)) ~> Has(sentFiles, FileB)

====
